---- MODULE Spec2Model ----
(***************************************************************************)
(* Model of the yact terminal dashboard controller (src/yact/src/ui.rs,    *)
(* src/yact/src/main.rs): the AppState session object, its public          *)
(* operations, the key dispatch of the event loop and the log ingestion    *)
(* pipeline.                                                               *)
(*                                                                         *)
(* Representation.                                                         *)
(*   - A string is a sequence of chunks.  A chunk is either the newline    *)
(*     NL, the carriage return CR, or a newline-free piece of text (a      *)
(*     single character in the SSE payloads, a whole formatted piece in    *)
(*     an error message).                                                  *)
(*   - Option<T> is a sequence of length 0 (None) or 1 (Some(x)).          *)
(*   - A JSON document is an object with n numeric members, written as     *)
(*     the sequence of its member values.                                  *)
(*   - ScrollbarState is the record of the two fields the program sets.    *)
(***************************************************************************)
EXTENDS Integers, Sequences, FiniteSets, TLC

VARIABLES current_page, configs, loading, error, scroll_offset, scroll_state,
          logs, logs_loading, running, lastOp, fetched, sse_data, parsed,
          downs

vars == <<current_page, configs, loading, error, scroll_offset, scroll_state,
          logs, logs_loading, running, lastOp, fetched, sse_data, parsed,
          downs>>

\* ---------------------------------------------------------------- bounds
\* Scaled stand-in for the ceiling 1000 passed to limit_log_lines.
MAX_LOG_LINES == 3
\* Largest number of members of a fetched JSON document.
MaxFields == 2
\* scroll_down is offered while scroll_offset is below this cap.
MaxScroll == 3
\* A failing load_logs is offered while the buffer holds fewer than
\* MAX_LOG_LINES + MaxOverflow lines.
MaxOverflow == 1
\* In the key-driven session 'L' is offered while the buffer has fewer lines.
SessionLogLines == 2
\* Number of fragments an SSE payload is assembled from.
MaxFragments == 4
\* scroll_down is repeated this many times beyond the u16 range.
MaxExtraDowns == 2

\* ------------------------------------------------------------- constants
U16_MAX == 65535

NL == "\n"
CR == "\r"
None == <<>>
Some(x) == <<x>>

Min(a, b) == IF a <= b THEN a ELSE b
Max(a, b) == IF a >= b THEN a ELSE b

\* ------------------------------------------------------- string helpers
\* str::starts_with
starts_with(s, p) == Len(s) >= Len(p) /\ SubSeq(s, 1, Len(p)) = p

\* str::strip_prefix(p).unwrap_or(s)
strip_prefix(s, p) == IF starts_with(s, p) THEN SubSeq(s, Len(p) + 1, Len(s)) ELSE s

is_whitespace(c) == c \in {" ", "\t", NL, CR}

RECURSIVE trim_start(_)
\* str::trim_start
trim_start(s) ==
    IF s # <<>> /\ is_whitespace(Head(s)) THEN trim_start(Tail(s)) ELSE s

\* A segment terminated by NL loses one CR right before the NL.
strip_cr(seg) ==
    IF seg # <<>> /\ seg[Len(seg)] = CR THEN SubSeq(seg, 1, Len(seg) - 1) ELSE seg

RECURSIVE lines_from(_, _, _, _)
lines_from(s, i, cur, acc) ==
    IF i > Len(s)
    THEN IF cur = <<>> THEN acc ELSE Append(acc, cur)
    ELSE IF s[i] = NL
         THEN lines_from(s, i + 1, <<>>, Append(acc, strip_cr(cur)))
         ELSE lines_from(s, i + 1, Append(cur, s[i]), acc)

\* str::lines().collect(): split at "\n" or "\r\n"; a final line ending
\* yields no extra empty line.
lines(s) == lines_from(s, 1, <<>>, <<>>)

RECURSIVE join(_, _)
\* [String]::join(sep)
join(ls, sep) ==
    IF ls = <<>> THEN <<>>
    ELSE IF Len(ls) = 1 THEN ls[1]
    ELSE ls[1] \o <<sep>> \o join(Tail(ls), sep)

\* ------------------------------------------------ log ingestion pipeline
EVENT_PREFIX == <<"e", "v", "e", "n", "t", ":">>
ID_PREFIX == <<"i", "d", ":">>
RETRY_PREFIX == <<"r", "e", "t", "r", "y", ":">>
DATA_PREFIX == <<"d", "a", "t", "a", ":">>

RECURSIVE parse_loop_no_trim(_, _, _)
\* The loop as it would be without the trim_start() after strip_prefix.
parse_loop_no_trim(ls, i, out) ==
    IF i > Len(ls) THEN out
    ELSE LET line == ls[i] IN
         IF starts_with(line, EVENT_PREFIX) \/ starts_with(line, ID_PREFIX)
                \/ starts_with(line, RETRY_PREFIX)
         THEN parse_loop_no_trim(ls, i + 1, out)
         ELSE LET content == IF starts_with(line, DATA_PREFIX)
                             THEN strip_prefix(line, DATA_PREFIX)
                             ELSE line
              IN  IF content # <<>>
                  THEN parse_loop_no_trim(ls, i + 1, Append(out, content))
                  ELSE parse_loop_no_trim(ls, i + 1, out)

RECURSIVE parse_loop(_, _, _)
\* The for loop of parse_sse_logs over sse_data.lines().
parse_loop(ls, i, out) ==
    IF i > Len(ls) THEN out
    ELSE LET line == ls[i] IN
         IF starts_with(line, EVENT_PREFIX) \/ starts_with(line, ID_PREFIX)
                \/ starts_with(line, RETRY_PREFIX)
         THEN parse_loop(ls, i + 1, out)
         ELSE LET content == IF starts_with(line, DATA_PREFIX)
                             THEN trim_start(strip_prefix(line, DATA_PREFIX))
                             ELSE line
              IN  IF content # <<>>
                  THEN parse_loop(ls, i + 1, Append(out, content))
                  ELSE parse_loop(ls, i + 1, out)

parse_sse_logs(data) == join(parse_loop(lines(data), 1, <<>>), NL)

limit_log_lines(text, max_lines) ==
    LET all_lines == lines(text) IN
    IF Len(all_lines) <= max_lines
    THEN text
    ELSE LET start_index == Len(all_lines) - max_lines
         IN  join(SubSeq(all_lines, start_index + 1, Len(all_lines)), NL)

\* ------------------------------------------------------------- AppPage
AppPage == {"Proxy", "Log", "Settings", "Config"}

index(p) == CASE p = "Proxy" -> 0 [] p = "Log" -> 1 [] p = "Settings" -> 2
              [] p = "Config" -> 3

from_index(i) == CASE i % 4 = 0 -> "Proxy" [] i % 4 = 1 -> "Log"
                   [] i % 4 = 2 -> "Settings" [] OTHER -> "Config"

next(p) == from_index(index(p) + 1)

\* previous as it would be stepping two pages forward instead of three.
previous_off_by_one(p) == from_index(index(p) + 2)

previous(p) == from_index(index(p) + 3)

\* ------------------------------------------------- documents, scrollbar
\* The JSON documents the control endpoint may answer with.
Docs == {[i \in 1..n |-> i] : n \in 0..MaxFields}

RECURSIVE pretty_members(_, _)
pretty_members(doc, i) ==
    IF i > Len(doc) THEN <<>>
    ELSE <<"  member", NL>> \o pretty_members(doc, i + 1)

\* serde_json::to_string_pretty of an object: "{}" when empty, otherwise
\* one line per member between the two brace lines.
to_string_pretty(doc) ==
    IF doc = <<>> THEN <<"{}">>
    ELSE <<"{", NL>> \o pretty_members(doc, 1) \o <<"}">>

ScrollbarState_new(content_length) ==
    [content_length |-> content_length, position |-> 0]

ScrollbarState_position(st, pos) == [st EXCEPT !.position = pos]

\* Addition as it would be with wrapping_add instead of saturating_add.
saturating_add_wrapping(x, y) == (x + y) % (U16_MAX + 1)

saturating_add(x, y) == Min(x + y, U16_MAX)

\* Subtraction as it would be with wrapping_sub instead of saturating_sub.
saturating_sub_wrapping(x, y) == (x - y) % (U16_MAX + 1)

saturating_sub(x, y) == Max(x - y, 0)

\* ------------------------------------------------------- fetch outcomes
\* get_configs(): Ok(document) or Err(e).
ConfigResults ==
    {[ok |-> TRUE, doc |-> d] : d \in Docs} \cup {[ok |-> FALSE, doc |-> <<>>]}

config_error_msg == <<"Failed to load configs: ", "e">>
logs_request_error_msg == <<"Failed to load logs: ", "e">>
logs_body_error_msg == <<"Error reading logs: ", "e">>

DataLine(c) == DATA_PREFIX \o <<" ", c, NL>>

RECURSIVE OversizedPayload(_)
\* A payload of n content lines, alternately "a" and "b", oldest first.
OversizedPayload(n) ==
    IF n = 0 THEN <<>>
    ELSE OversizedPayload(n - 1) \o DataLine(IF n % 2 = 1 THEN "a" ELSE "b")

\* Raw bodies of the log stream response.
LogPayloads ==
    { <<>>,
      DataLine("a"),
      EVENT_PREFIX \o <<" ", "x", NL>> \o DataLine("b"),
      <<"a", NL, "b", NL>>,
      OversizedPayload(MAX_LOG_LINES + 1) }

\* get_logs() and resp.text(): the request fails, the body read fails, or
\* the body text arrives.
LogResults ==
    {[kind |-> "ok", text |-> t] : t \in LogPayloads}
        \cup {[kind |-> "request_err", text |-> <<>>],
              [kind |-> "body_err", text |-> <<>>]}

SessionLogResults ==
    {[kind |-> "ok", text |-> DataLine("a")],
     [kind |-> "request_err", text |-> <<>>],
     [kind |-> "body_err", text |-> <<>>]}

\* ----------------------------------------------------------- AppState
\* The session object as a record; fetched lists the fetches issued by the
\* operation in progress, with the state they were issued in, and held is
\* the configuration held when the operation began.
St == [current_page |-> current_page, configs |-> configs, loading |-> loading,
       error |-> error, scroll_offset |-> scroll_offset,
       scroll_state |-> scroll_state, logs |-> logs,
       logs_loading |-> logs_loading, fetched |-> <<>>, held |-> configs]

AppState_new ==
    [current_page |-> "Proxy", configs |-> None, loading |-> FALSE,
     error |-> None, scroll_offset |-> 0, scroll_state |-> ScrollbarState_new(0),
     logs |-> None, logs_loading |-> FALSE, fetched |-> <<>>, held |-> None]

\* What a fetch looked like when it was issued: s0 is the state on entry to
\* the loading operation, s1 the state at the network call.  payload is the
\* document or body text the fetch answered with.
FetchRecord(s0, s1, kind, ok, payload) ==
    [kind |-> kind, ok |-> ok, payload |-> payload,
     held |-> s0.held, error_before |-> s0.error,
     configs_at |-> s1.configs, error_at |-> s1.error,
     loading_at |-> s1.loading, logs_loading_at |-> s1.logs_loading]

\* load_configs as it would be if the Err arm also dropped the held document.
load_configs_blanking(s, r) ==
    LET s1 == [s EXCEPT !.loading = TRUE, !.error = None]
        s2 == [s1 EXCEPT !.fetched = Append(@, FetchRecord(s, s1, "configs", r.ok, r.doc))]
        s3 == IF r.ok
              THEN LET text == to_string_pretty(r.doc)
                       n == Len(lines(text))
                   IN  [s2 EXCEPT !.configs = Some(r.doc),
                                  !.scroll_state = ScrollbarState_new(saturating_sub(n, 1))]
              ELSE [s2 EXCEPT !.error = Some(config_error_msg), !.configs = None]
    IN  [s3 EXCEPT !.loading = FALSE]

\* load_configs as it would be without the `self.error = None` at its start.
load_configs_keeps_error(s, r) ==
    LET s1 == [s EXCEPT !.loading = TRUE]
        s2 == [s1 EXCEPT !.fetched = Append(@, FetchRecord(s, s1, "configs", r.ok, r.doc))]
        s3 == IF r.ok
              THEN LET text == to_string_pretty(r.doc)
                       n == Len(lines(text))
                   IN  [s2 EXCEPT !.configs = Some(r.doc),
                                  !.scroll_state = ScrollbarState_new(saturating_sub(n, 1))]
              ELSE [s2 EXCEPT !.error = Some(config_error_msg)]
    IN  [s3 EXCEPT !.loading = FALSE]

\* load_configs as it would be if the Err arm returned before the final
\* `self.loading = false`.
load_configs_early_return(s, r) ==
    LET s1 == [s EXCEPT !.loading = TRUE, !.error = None]
        s2 == [s1 EXCEPT !.fetched = Append(@, FetchRecord(s, s1, "configs", r.ok, r.doc))]
    IN  IF r.ok
        THEN LET text == to_string_pretty(r.doc)
                 n == Len(lines(text))
             IN  [s2 EXCEPT !.configs = Some(r.doc),
                            !.scroll_state = ScrollbarState_new(saturating_sub(n, 1)),
                            !.loading = FALSE]
        ELSE [s2 EXCEPT !.error = Some(config_error_msg)]

\* load_configs as it would be if a failed fetch were retried once on the
\* spot.
load_configs_retrying(s, r) ==
    LET s1 == [s EXCEPT !.loading = TRUE, !.error = None]
        s2 == [s1 EXCEPT !.fetched = Append(@, FetchRecord(s, s1, "configs", r.ok, r.doc))]
        s3 == IF r.ok
              THEN LET text == to_string_pretty(r.doc)
                       n == Len(lines(text))
                   IN  [s2 EXCEPT !.configs = Some(r.doc),
                                  !.scroll_state = ScrollbarState_new(saturating_sub(n, 1))]
              ELSE [s2 EXCEPT !.error = Some(config_error_msg),
                              !.fetched = Append(@, FetchRecord(s, s1, "configs", r.ok, r.doc))]
    IN  [s3 EXCEPT !.loading = FALSE]

\* load_configs as it would be if the Ok arm also rewound scroll_offset.
load_configs_resets_scroll(s, r) ==
    LET s1 == [s EXCEPT !.loading = TRUE, !.error = None]
        s2 == [s1 EXCEPT !.fetched = Append(@, FetchRecord(s, s1, "configs", r.ok, r.doc))]
        s3 == IF r.ok
              THEN LET text == to_string_pretty(r.doc)
                       n == Len(lines(text))
                   IN  [s2 EXCEPT !.configs = Some(r.doc),
                                  !.scroll_offset = 0,
                                  !.scroll_state = ScrollbarState_new(saturating_sub(n, 1))]
              ELSE [s2 EXCEPT !.error = Some(config_error_msg)]
    IN  [s3 EXCEPT !.loading = FALSE]

load_configs(s, r) ==
    LET s1 == [s EXCEPT !.loading = TRUE, !.error = None]
        s2 == [s1 EXCEPT !.fetched = Append(@, FetchRecord(s, s1, "configs", r.ok, r.doc))]
        s3 == IF r.ok
              THEN LET text == to_string_pretty(r.doc)
                       n == Len(lines(text))
                   IN  [s2 EXCEPT !.configs = Some(r.doc),
                                  !.scroll_state = ScrollbarState_new(saturating_sub(n, 1))]
              ELSE [s2 EXCEPT !.error = Some(config_error_msg)]
    IN  [s3 EXCEPT !.loading = FALSE]

\* The Err arms as they would be if the error line replaced the buffer.
push_error_line_replacing(s, msg) == [s EXCEPT !.logs = Some(msg)]

push_error_line(s, msg) ==
    IF s.logs # None
    THEN [s EXCEPT !.logs = Some(s.logs[1] \o <<NL>> \o msg)]
    ELSE [s EXCEPT !.logs = Some(msg)]

load_logs(s, r) ==
    LET s1 == [s EXCEPT !.logs_loading = TRUE]
        s2 == [s1 EXCEPT !.fetched = Append(@, FetchRecord(s, s1, "logs", r.kind = "ok", r.text))]
        s3 == CASE r.kind = "ok" ->
                     LET parsed_logs == parse_sse_logs(r.text)
                         limited_logs == limit_log_lines(parsed_logs, MAX_LOG_LINES)
                     IN  IF s2.logs # None
                         THEN LET combined == s2.logs[1] \o <<NL>> \o limited_logs
                              IN  [s2 EXCEPT !.logs = Some(limit_log_lines(combined, MAX_LOG_LINES))]
                         ELSE [s2 EXCEPT !.logs = Some(limited_logs)]
                [] r.kind = "body_err" -> push_error_line(s2, logs_body_error_msg)
                [] OTHER -> push_error_line(s2, logs_request_error_msg)
    IN  [s3 EXCEPT !.logs_loading = FALSE]

\* next_page as it would be without the `current_page == AppPage::Config`
\* test.
next_page_any_page(s, r) ==
    LET s1 == [s EXCEPT !.current_page = next(s.current_page)] IN
    IF s1.configs = None /\ ~s1.loading
    THEN load_configs(s1, r)
    ELSE s1

\* next_page as it would be without the `configs.is_none()` test.
next_page_ignores_configs(s, r) ==
    LET s1 == [s EXCEPT !.current_page = next(s.current_page)] IN
    IF s1.current_page = "Config" /\ ~s1.loading
    THEN load_configs(s1, r)
    ELSE s1

next_page(s, r) ==
    LET s1 == [s EXCEPT !.current_page = next(s.current_page)] IN
    IF s1.current_page = "Config" /\ s1.configs = None /\ ~s1.loading
    THEN load_configs(s1, r)
    ELSE s1

previous_page(s) == [s EXCEPT !.current_page = previous(s.current_page)]

scroll_down(s) ==
    LET off == saturating_add(s.scroll_offset, 1) IN
    [s EXCEPT !.scroll_offset = off,
              !.scroll_state = ScrollbarState_position(s.scroll_state, off)]

scroll_up(s) ==
    LET off == saturating_sub(s.scroll_offset, 1) IN
    [s EXCEPT !.scroll_offset = off,
              !.scroll_state = ScrollbarState_position(s.scroll_state, off)]

\* The 'R' arm as it would be without `app.configs = None`.
reload_request_no_clear(s, r) ==
    IF s.current_page = "Config" THEN load_configs(s, r) ELSE s

\* main.rs: the 'r' / 'R' arm.
reload_request(s, r) ==
    IF s.current_page = "Config"
    THEN load_configs([s EXCEPT !.configs = None], r)
    ELSE s

\* The Enter arm as it would be without the `configs.is_none()` test.
enter_request_always(s, r) ==
    IF s.current_page = "Config" THEN load_configs(s, r) ELSE s

\* main.rs: the Enter arm.
enter_request(s, r) ==
    IF s.current_page = "Config" /\ s.configs = None
    THEN load_configs(s, r)
    ELSE s

\* main.rs: the 'l' / 'L' arm.
\* The 'L' arm as it would be without the page test.
logs_request_anywhere(s, r) == load_logs(s, r)

logs_request(s, r) ==
    IF s.current_page = "Log" THEN load_logs(s, r) ELSE s

LogLineCount(l) == IF l = None THEN 0 ELSE Len(lines(l[1]))

\* ------------------------------------------------ SSE payloads (inputs)
Fragments ==
    { EVENT_PREFIX, ID_PREFIX, RETRY_PREFIX, DATA_PREFIX,
      <<" ">>, <<"x">>, <<NL>>, <<CR, NL>> }

RECURSIVE Flatten(_)
Flatten(fs) == IF fs = <<>> THEN <<>> ELSE Head(fs) \o Flatten(Tail(fs))

\* "event: ping\ndata: hello\nid: 5\ndata: world\n"
ExamplePayload ==
    <<"e", "v", "e", "n", "t", ":", " ", "p", "i", "n", "g", "\n", "d", "a", "t", "a", ":", " ", "h", "e", "l", "l", "o", "\n", "i", "d", ":", " ", "5", "\n", "d", "a", "t", "a", ":", " ", "w", "o", "r", "l", "d", "\n">>

\* "hello\nworld"
ExampleParsed ==
    <<"h", "e", "l", "l", "o", "\n", "w", "o", "r", "l", "d">>

ParseInputs ==
    {Flatten(f) : f \in UNION {[1..n -> Fragments] : n \in 0..MaxFragments}}
        \cup {ExamplePayload}

\* ------------------------------------------------------------- actions
Apply(t, op) ==
    /\ current_page' = t.current_page
    /\ configs' = t.configs
    /\ loading' = t.loading
    /\ error' = t.error
    /\ scroll_offset' = t.scroll_offset
    /\ scroll_state' = t.scroll_state
    /\ logs' = t.logs
    /\ logs_loading' = t.logs_loading
    /\ fetched' = t.fetched
    /\ lastOp' = op
    /\ UNCHANGED <<sse_data, parsed, downs>>

Init ==
    /\ current_page = AppState_new.current_page
    /\ configs = AppState_new.configs
    /\ loading = AppState_new.loading
    /\ error = AppState_new.error
    /\ scroll_offset = AppState_new.scroll_offset
    /\ scroll_state = AppState_new.scroll_state
    /\ logs = AppState_new.logs
    /\ logs_loading = AppState_new.logs_loading
    /\ running = TRUE
    /\ lastOp = "none"
    /\ fetched = <<>>
    /\ sse_data = <<>>
    /\ parsed = None
    /\ downs = 0

\* --- the event loop of main(): one action per arm of the key dispatch
KeyLeft ==
    /\ running
    /\ Apply(previous_page(St), "Left")
    /\ UNCHANGED running

KeyRight ==
    /\ running
    /\ \E r \in ConfigResults : Apply(next_page(St, r), "Right")
    /\ UNCHANGED running

KeyUp ==
    /\ running
    /\ Apply(scroll_up(St), "Up")
    /\ UNCHANGED running

KeyDown ==
    /\ running
    /\ scroll_offset < MaxScroll
    /\ Apply(scroll_down(St), "Down")
    /\ UNCHANGED running

\* The 'R' arm as it would be if a failed fetch ended the loop.
KeyR_stops_on_failure ==
    /\ running
    /\ \E r \in ConfigResults :
          /\ Apply(reload_request(St, r), "R")
          /\ running' = (current_page # "Config" \/ r.ok)

KeyR ==
    /\ running
    /\ \E r \in ConfigResults : Apply(reload_request(St, r), "R")
    /\ UNCHANGED running

KeyEnter ==
    /\ running
    /\ \E r \in ConfigResults : Apply(enter_request(St, r), "Enter")
    /\ UNCHANGED running

KeyL ==
    /\ running
    /\ LogLineCount(logs) < SessionLogLines
    /\ \E r \in SessionLogResults : Apply(logs_request(St, r), "L")
    /\ UNCHANGED running

\* 'q', 'Q' and Esc.
KeyQuit ==
    /\ running
    /\ Apply(St, "Quit")
    /\ running' = FALSE

\* Any other key code, a key event that is not a press, a non-key event.
KeyOther ==
    /\ running
    /\ Apply(St, "Other")
    /\ UNCHANGED running

\* terminal.draw(..)? or event::read()? returns Err: main returns, which
\* ends the loop as running = false does.
IoError ==
    /\ running
    /\ Apply(St, "IoError")
    /\ running' = FALSE

Next ==
    \/ KeyLeft
    \/ KeyRight
    \/ KeyUp
    \/ KeyDown
    \/ KeyR
    \/ KeyEnter
    \/ KeyL
    \/ KeyQuit
    \/ KeyOther
    \/ IoError

Spec == Init /\ [][Next]_vars

\* --- the public operations of AppState called directly, in any order
CallNextPage ==
    /\ \E r \in ConfigResults : Apply(next_page(St, r), "next_page")
    /\ UNCHANGED running

CallPreviousPage ==
    /\ Apply(previous_page(St), "previous_page")
    /\ UNCHANGED running

CallLoadConfigs ==
    /\ \E r \in ConfigResults : Apply(load_configs(St, r), "load_configs")
    /\ UNCHANGED running

CallScrollUp ==
    /\ Apply(scroll_up(St), "scroll_up")
    /\ UNCHANGED running

CallScrollDown ==
    /\ scroll_offset < MaxScroll
    /\ Apply(scroll_down(St), "scroll_down")
    /\ UNCHANGED running

NextApi ==
    \/ CallNextPage
    \/ CallPreviousPage
    \/ CallLoadConfigs
    \/ CallScrollUp
    \/ CallScrollDown

SpecApi == Init /\ [][NextApi]_vars

\* --- repeated load_logs calls
CallLoadLogs ==
    /\ \E r \in LogResults :
          /\ r.kind # "ok" => LogLineCount(logs) < MAX_LOG_LINES + MaxOverflow
          /\ Apply(load_logs(St, r), "load_logs")
    /\ UNCHANGED running

NextLogs == CallLoadLogs

SpecLogs == Init /\ [][NextLogs]_vars

\* --- scroll_down repeated on a fresh session; downs counts the calls
RepeatScrollDown ==
    /\ downs < U16_MAX + MaxExtraDowns
    /\ LET t == scroll_down(St) IN
          /\ scroll_offset' = t.scroll_offset
          /\ scroll_state' = t.scroll_state
    /\ downs' = downs + 1
    /\ lastOp' = "scroll_down"
    /\ UNCHANGED <<current_page, configs, loading, error, logs, logs_loading,
                   running, fetched, sse_data, parsed>>

NextScroll == RepeatScrollDown

SpecScroll == Init /\ [][NextScroll]_vars

\* --- parse_sse_logs applied to a payload
InitParse ==
    /\ current_page = AppState_new.current_page
    /\ configs = AppState_new.configs
    /\ loading = AppState_new.loading
    /\ error = AppState_new.error
    /\ scroll_offset = AppState_new.scroll_offset
    /\ scroll_state = AppState_new.scroll_state
    /\ logs = AppState_new.logs
    /\ logs_loading = AppState_new.logs_loading
    /\ running = TRUE
    /\ lastOp = "none"
    /\ fetched = <<>>
    /\ sse_data \in ParseInputs
    /\ parsed = None
    /\ downs = 0

ParsePayload ==
    /\ parsed = None
    /\ parsed' = Some(parse_sse_logs(sse_data))
    /\ lastOp' = "parse_sse_logs"
    /\ UNCHANGED <<current_page, configs, loading, error, scroll_offset,
                   scroll_state, logs, logs_loading, running, fetched, sse_data,
                   downs>>

NextParse == ParsePayload

SpecParse == InitParse /\ [][NextParse]_vars

TypeOK ==
    /\ current_page \in AppPage
    /\ loading \in BOOLEAN
    /\ logs_loading \in BOOLEAN
    /\ running \in BOOLEAN
    /\ scroll_offset \in 0..U16_MAX
    /\ Len(configs) <= 1
    /\ Len(error) <= 1
    /\ Len(logs) <= 1

\* ================================================================ claims
ConfigFetches(f) == SelectSeq(f, LAMBDA x : x.kind = "configs")

FailedConfigFetches(f) == SelectSeq(f, LAMBDA x : x.kind = "configs" /\ ~x.ok)

\* C1: whenever next_page or previous_page (the Right and Left keys) moves
\* current_page into Config while configs = none and loading = false, exactly
\* one configuration fetch is performed during that operation.
C1_NavigationIntoConfigFetchesOnce ==
    [][(/\ lastOp' \in {"Left", "Right"}
        /\ current_page # "Config"
        /\ current_page' = "Config"
        /\ configs = None
        /\ ~loading)
       => Len(ConfigFetches(fetched')) = 1]_vars

\* C2: in the interactive session, whenever a configuration fetch fails, the
\* configuration held before the key event that triggered the fetch is still
\* held after the event, whichever key triggered it.
C2_FailedFetchKeepsHeldConfigs ==
    [][FailedConfigFetches(fetched') # <<>> => configs' = configs]_vars

\* C3: after any sequence of load_logs calls, each succeeding, failing at the
\* request or failing while reading the body, the logs buffer never holds
\* more than the ceiling of lines.
C3_LogsNeverExceedCeiling == LogLineCount(logs) <= MAX_LOG_LINES

\* Line count of the pretty-printed configuration currently held.
total_lines(c) == IF c = None THEN 0 ELSE Len(lines(to_string_pretty(c[1])))

\* C4: scroll_offset is never advanced past the last renderable line of the
\* held configuration: scroll_offset <= max(0, line count - 1) in every
\* reachable state.
C4_ScrollOffsetWithinContent ==
    scroll_offset <= Max(0, total_lines(configs) - 1)

\* C5: a failed load_configs() invoked while configs holds document D leaves
\* configs = D, sets error to a non-empty message and leaves loading = false.
C5_FailedLoadKeepsDocument ==
    [][(/\ lastOp' = "load_configs"
        /\ configs # None
        /\ FailedConfigFetches(fetched') # <<>>)
       => (/\ configs' = configs
           /\ error' # None
           /\ error'[1] # <<>>
           /\ loading' = FALSE)]_vars

\* A failed load_configs() has just run on a session that held a document.
C5_Witness ==
    /\ lastOp = "load_configs"
    /\ Len(fetched) = 1
    /\ ~fetched[1].ok
    /\ fetched[1].held # None
    /\ configs = fetched[1].held
    /\ error = Some(config_error_msg)

\* C6: a failed load never poisons later loads: after any number of failed
\* load_configs() calls, the next load_configs() whose fetch succeeds with
\* document D' ends with configs = D', error = none and loading = false.
C6_SuccessAfterFailuresIsClean ==
    [][(/\ lastOp' = "load_configs"
        /\ Len(fetched') = 1
        /\ fetched'[1].ok)
       => (/\ configs' = Some(fetched'[1].payload)
           /\ error' = None
           /\ loading' = FALSE)]_vars

\* A successful load_configs() has just run on a session that showed the
\* error of an earlier failed load and held a different document.
C6_Witness ==
    /\ lastOp = "load_configs"
    /\ Len(fetched) = 1
    /\ fetched[1].ok
    /\ fetched[1].error_before # None
    /\ fetched[1].held # None
    /\ fetched[1].held # configs
    /\ configs = Some(fetched[1].payload)
    /\ error = None

\* C7: the 'R' key handled on the Config page always results in exactly one
\* configuration fetch attempt, issued with configs = none, whatever configs,
\* error and loading were before.
C7_ReloadFetchesOnceWithConfigsCleared ==
    [][(lastOp' = "R" /\ current_page = "Config")
       => (/\ Len(fetched') = 1
           /\ fetched'[1].kind = "configs"
           /\ fetched'[1].configs_at = None)]_vars

\* 'R' has just been handled on the Config page of a session that held a
\* document.
C7_Witness ==
    /\ lastOp = "R"
    /\ current_page = "Config"
    /\ Len(fetched) = 1
    /\ fetched[1].held # None
    /\ fetched[1].configs_at = None

\* C8: once configs is set, no key event other than 'R' on the Config page
\* causes a configuration fetch: re-entering Config by navigation and
\* pressing Enter both trigger zero fetches.
C8_OnlyReloadRefetches ==
    [][(configs # None /\ ~(lastOp' = "R" /\ current_page = "Config"))
       => ConfigFetches(fetched') = <<>>]_vars

\* Enter has just been handled on the Config page while a document was held,
\* and no fetch was issued.
C8_Witness ==
    /\ lastOp = "Enter"
    /\ current_page = "Config"
    /\ configs # None
    /\ fetched = <<>>

\* The last n elements of a sequence.
LastN(q, n) == SubSeq(q, Len(q) - n + 1, Len(q))

\* C9: after a successful load_logs() with an existing buffer of m lines and
\* a non-empty parsed chunk of k lines, the buffer consists of exactly the
\* last min(ceiling, m + k) lines of (old buffer lines followed by the last
\* min(k, ceiling) new lines), in original order.
C9_MergeKeepsNewestLines ==
    [][(/\ lastOp' = "load_logs"
        /\ Len(fetched') = 1
        /\ fetched'[1].ok
        /\ logs # None
        /\ parse_sse_logs(fetched'[1].payload) # <<>>)
       => LET old == lines(logs[1])
              new == lines(parse_sse_logs(fetched'[1].payload))
              m == Len(old)
              k == Len(new)
          IN  lines(logs'[1]) =
                  LastN(old \o LastN(new, Min(k, MAX_LOG_LINES)),
                        Min(MAX_LOG_LINES, m + k))]_vars

\* The first index of a line that holds no whitespace, Len + 1 if none.
FirstNonBlank(l) ==
    IF \E i \in 1..Len(l) : ~is_whitespace(l[i])
    THEN CHOOSE i \in 1..Len(l) :
            /\ ~is_whitespace(l[i])
            /\ \A j \in 1..(i - 1) : is_whitespace(l[j])
    ELSE Len(l) + 1

HasPrefix(l, p) == Len(l) >= Len(p) /\ \A i \in 1..Len(p) : l[i] = p[i]

IsMetaLine(l) ==
    HasPrefix(l, EVENT_PREFIX) \/ HasPrefix(l, ID_PREFIX) \/ HasPrefix(l, RETRY_PREFIX)

\* A line with a leading "data:" and the whitespace right after it removed.
DataStripped(l) ==
    IF HasPrefix(l, DATA_PREFIX)
    THEN LET rest == [i \in 1..(Len(l) - Len(DATA_PREFIX)) |-> l[i + Len(DATA_PREFIX)]]
         IN  SubSeq(rest, FirstNonBlank(rest), Len(rest))
    ELSE l

\* The content lines of a payload, as the pipeline is specified.
ContentLines(data) ==
    LET kept == SelectSeq(lines(data), LAMBDA l : ~IsMetaLine(l))
        stripped == [i \in 1..Len(kept) |-> DataStripped(kept[i])]
    IN  SelectSeq(stripped, LAMBDA l : Len(l) > 0)

\* C10: for every raw payload, parse_sse_logs returns the newline-join of the
\* payload's lines, minus lines beginning with "event:", "id:" or "retry:",
\* with a leading "data:" and the whitespace right after it stripped, minus
\* lines that are empty after stripping, in original order; the payload
\* "event: ping\ndata: hello\nid: 5\ndata: world\n" gives "hello\nworld".
C10_ParseExtractsContentLines ==
    parsed # None =>
        /\ parsed[1] = join(ContentLines(sse_data), NL)
        /\ sse_data = ExamplePayload => parsed[1] = ExampleParsed

\* parse_sse_logs has run on the example payload.
C10_Witness ==
    /\ lastOp = "parse_sse_logs"
    /\ sse_data = ExamplePayload
    /\ parsed = Some(ExampleParsed)

\* The page order Proxy -> Log -> Settings -> Config -> Proxy.
PageAfter(p) ==
    CASE p = "Proxy" -> "Log" [] p = "Log" -> "Settings"
      [] p = "Settings" -> "Config" [] p = "Config" -> "Proxy"

\* C11: after any sequence of next_page / previous_page calls current_page is
\* one of the four pages; from the page reached, next then previous and
\* previous then next both return to it, and next follows the order
\* Proxy -> Log -> Settings -> Config, wrapping back to Proxy.
C11_PagesCycleAndInvert ==
    /\ current_page \in {"Proxy", "Log", "Settings", "Config"}
    /\ \A r \in ConfigResults :
          /\ previous_page(next_page(St, r)).current_page = current_page
          /\ next_page(previous_page(St), r).current_page = current_page
          /\ next_page(St, r).current_page = PageAfter(current_page)
          /\ PageAfter(previous_page(St).current_page) = current_page

\* next_page has just wrapped from Config back to Proxy.
C11_Witness ==
    /\ lastOp = "Right"
    /\ current_page = "Proxy"

\* C12: scroll_down repeated N times from scroll_offset = 0, with no
\* scroll_up in between, yields scroll_offset = N for every N.
C12_RepeatedScrollDownYieldsN == scroll_offset = downs

\* C12 as amended: N calls yield min(N, 65535); there is no clamp against
\* the content, only the saturation of the 16-bit offset.
C12_RepeatedScrollDownSaturates == scroll_offset = Min(downs, U16_MAX)

\* scroll_down has been called once more than the 16-bit range holds.
C12_Witness ==
    /\ lastOp = "scroll_down"
    /\ downs = U16_MAX + 1
    /\ scroll_offset = U16_MAX

\* C13: scroll_up never underflows: from scroll_offset = 0 it leaves 0, from
\* n > 0 it yields n - 1, and scroll_offset >= 0 after any sequence of
\* scroll operations.
C13_ScrollUpNeverUnderflows ==
    [][/\ scroll_offset' >= 0
       /\ lastOp' = "Up" =>
             scroll_offset' = IF scroll_offset = 0 THEN 0 ELSE scroll_offset - 1]_vars

\* Up has just been handled and the offset is at its floor.
C13_Witness ==
    /\ lastOp = "Up"
    /\ scroll_offset = 0
    /\ scroll_state.position = 0

IsPrefix(p, q) == Len(p) <= Len(q) /\ SubSeq(q, 1, Len(p)) = p

\* C14: a failed load_logs() (request failure or body-read failure) keeps the
\* scrollback: if logs held buffer B, afterwards logs is B followed by a
\* newline and one formatted error line, with every line of B retained in
\* order; if logs was none, logs becomes the error line; and once logs is set
\* it never returns to none.
C14_FailedLogLoadAppendsErrorLine ==
    [][/\ logs # None => logs' # None
       /\ (/\ lastOp' = "load_logs"
           /\ Len(fetched') = 1
           /\ ~fetched'[1].ok)
          => \E msg \in {logs_request_error_msg, logs_body_error_msg} :
                IF logs # None
                THEN /\ logs' = Some(logs[1] \o <<NL>> \o msg)
                     /\ IsPrefix(lines(logs[1]), lines(logs'[1]))
                     /\ Len(lines(logs'[1])) >= 1
                     /\ lines(logs'[1])[Len(lines(logs'[1]))] = msg
                ELSE logs' = Some(msg)]_vars

\* A failed load_logs() has just run on a session that held scrollback: the
\* buffer ends with the error line and has lines before it.
C14_Witness ==
    /\ lastOp = "load_logs"
    /\ Len(fetched) = 1
    /\ ~fetched[1].ok
    /\ logs # None
    /\ LogLineCount(logs) >= 3
    /\ lines(logs[1])[1] \in {<<"a">>, <<"b">>}

\* C15: the status flags are always cleared on exit: after every handled
\* input event, whatever the fetch outcome, loading = false and
\* logs_loading = false; loading (resp. logs_loading) is true only while the
\* corresponding fetch is in progress inside load_configs (resp. load_logs).
C15_FlagsClearedBetweenEvents ==
    /\ loading = FALSE
    /\ logs_loading = FALSE
    /\ \A i \in 1..Len(fetched) :
          /\ fetched[i].loading_at = (fetched[i].kind = "configs")
          /\ fetched[i].logs_loading_at = (fetched[i].kind = "logs")

\* A key event whose configuration fetch failed has just been handled.
C15_Witness ==
    /\ lastOp \in {"Right", "R", "Enter"}
    /\ Len(fetched) = 1
    /\ ~fetched[1].ok
    /\ fetched[1].loading_at
    /\ loading = FALSE

AnyFetchFailed(f) == \E i \in 1..Len(f) : ~f[i].ok

\* C16: no fetch failure terminates the session: the event loop stops only
\* when a 'Q'/'q' or Escape key press is handled, and after any failed config
\* or log load the loop keeps accepting and handling further key events.
C16_OnlyQuitStopsTheLoop ==
    [][/\ (running /\ ~running') => lastOp' = "Quit"
       /\ AnyFetchFailed(fetched') => (running' /\ lastOp' # "Quit")]_vars

\* C16 as amended: the loop stops only when Q / q / Esc is handled or when
\* drawing the frame or reading the event fails; no fetch failure stops it.
C16_OnlyQuitOrIoErrorStopsTheLoop ==
    [][/\ (running /\ ~running') => lastOp' \in {"Quit", "IoError"}
       /\ AnyFetchFailed(fetched') => (running' /\ lastOp' \notin {"Quit", "IoError"})]_vars

\* A key event whose fetch failed has just been handled and the loop is
\* still running.
C16_Witness ==
    /\ running
    /\ lastOp \in {"Right", "R", "Enter", "L"}
    /\ Len(fetched) = 1
    /\ ~fetched[1].ok

\* C17: the scrollbar position is bounded by the rendered content's line
\* count minus one: position <= bound after any sequence of scroll_up,
\* scroll_down and config loads.
C17_ScrollbarPositionWithinBound ==
    scroll_state.position <= scroll_state.content_length

\* C18: the scrollbar position stays synchronized with the offset: after any
\* sequence of scroll_up, scroll_down and (successful or failed) config
\* loads, the scrollbar position equals scroll_offset.
C18_ScrollbarPositionEqualsOffset ==
    scroll_state.position = scroll_offset

\* C19: the scrollbar bound is recomputed every time the configuration
\* content changes and never by a scroll action: in every state between
\* events the bound equals max(0, L - 1), L the line count of the
\* pretty-printed current configs (0 when configs = none).
C19_ScrollbarBoundFollowsContent ==
    scroll_state.content_length = Max(0, total_lines(configs) - 1)

\* The session state the program holds (everything but the run flag).
SessionState ==
    <<current_page, configs, loading, error, scroll_offset, scroll_state, logs,
      logs_loading>>

LogFetches(f) == SelectSeq(f, LAMBDA x : x.kind = "logs")

\* C20: key gating: Enter triggers a config load only when current_page =
\* Config and configs = none; 'R' triggers a reload only when current_page =
\* Config; 'L' triggers load_logs only when current_page = Log; in every
\* other case these keys leave the whole session state unchanged and issue no
\* fetch.
C20_KeysAreGated ==
    [][/\ lastOp' = "Enter" =>
             IF current_page = "Config" /\ configs = None
             THEN Len(fetched') = 1 /\ fetched'[1].kind = "configs"
             ELSE fetched' = <<>> /\ SessionState' = SessionState /\ running' = running
       /\ lastOp' = "R" =>
             IF current_page = "Config"
             THEN Len(fetched') = 1 /\ fetched'[1].kind = "configs"
             ELSE fetched' = <<>> /\ SessionState' = SessionState /\ running' = running
       /\ lastOp' = "L" =>
             IF current_page = "Log"
             THEN Len(fetched') = 1 /\ fetched'[1].kind = "logs"
             ELSE fetched' = <<>> /\ SessionState' = SessionState /\ running' = running]_vars

\* 'L' has just been handled away from the Log page, after an earlier load
\* had filled the buffer: nothing was fetched.
C20_Witness ==
    /\ lastOp = "L"
    /\ current_page # "Log"
    /\ fetched = <<>>
    /\ logs # None

\* C21: at most one network operation is outstanding at any time and none is
\* retried automatically: each handled input event issues at most one fetch
\* attempt (config or log stream), its result is applied to the session
\* state before the next input event is read, and after a failure no further
\* fetch occurs until another key event requests one.
C21_OneFetchPerEventAppliedAtOnce ==
    /\ Len(fetched) <= 1
    /\ lastOp \notin {"Right", "R", "Enter", "L"} => fetched = <<>>
    /\ \A i \in 1..Len(fetched) :
          LET f == fetched[i] IN
          /\ (f.kind = "configs" /\ f.ok) => (configs = Some(f.payload) /\ error = None)
          /\ (f.kind = "configs" /\ ~f.ok) => error = Some(config_error_msg)
          /\ (f.kind = "logs" /\ f.ok) => logs # None
          /\ (f.kind = "logs" /\ ~f.ok) =>
                /\ logs # None
                /\ lines(logs[1])[LogLineCount(logs)]
                      \in {logs_request_error_msg, logs_body_error_msg}
          /\ lastOp \in {"Right", "R", "Enter"} => f.kind = "configs"
          /\ lastOp = "L" => f.kind = "logs"

\* A key event has just been handled whose single configuration fetch
\* failed, and the failure is already visible in the session state.
C21_Witness ==
    /\ lastOp = "Enter"
    /\ Len(fetched) = 1
    /\ ~fetched[1].ok
    /\ error = Some(config_error_msg)

\* C22: moving into any page other than Config has no side effect: a
\* next_page or previous_page whose destination is Proxy, Log or Settings
\* changes only current_page and leaves configs, loading, error,
\* scroll_offset, the scrollbar state, logs and logs_loading unchanged, and
\* issues no fetch.
C22_OtherPagesHaveNoEntryEffect ==
    [][(lastOp' \in {"Left", "Right"} /\ current_page' # "Config")
       => (/\ current_page' # current_page
           /\ fetched' = <<>>
           /\ UNCHANGED <<configs, loading, error, scroll_offset, scroll_state,
                          logs, logs_loading>>)]_vars

\* next_page has just moved a session with nothing loaded onto the Log page
\* and fetched nothing.
C22_Witness ==
    /\ lastOp = "Right"
    /\ current_page = "Log"
    /\ configs = None
    /\ fetched = <<>>

\* C23: in the key-driven session every configuration fetch is issued while
\* configs = none; consequently in every state between events error # none
\* implies configs = none: an error message and a loaded configuration are
\* never held at the same time.
C23_ErrorAndConfigsNeverTogether ==
    /\ \A i \in 1..Len(fetched) :
          fetched[i].kind = "configs" => fetched[i].configs_at = None
    /\ error # None => configs = None

\* 'R' has just failed on a session that held a document: the error is shown
\* and no configuration is held.
C23_Witness ==
    /\ lastOp = "R"
    /\ Len(fetched) = 1
    /\ ~fetched[1].ok
    /\ fetched[1].held # None
    /\ error # None
    /\ configs = None

\* C24: after any sequence of load_logs calls (including fetches whose
\* payload parses to zero content lines), the logs buffer contains no empty
\* line: every line is a non-empty content line extracted from some payload
\* or a formatted error line.
C24_LogsHoldNoEmptyLine ==
    logs # None =>
        \A i \in 1..LogLineCount(logs) :
            /\ lines(logs[1])[i] # <<>>
            /\ lines(logs[1])[i] \in
                  {<<"a">>, <<"b">>, logs_request_error_msg, logs_body_error_msg}

\* C25: config state and log state are independent: load_logs (success or
\* failure) leaves current_page, configs, loading, error, scroll_offset and
\* the scrollbar state unchanged; load_configs (success or failure) leaves
\* current_page, logs, logs_loading and scroll_offset unchanged; scroll_up
\* and scroll_down change only scroll_offset and the scrollbar position.
C25_ConfigLogAndScrollAreIndependent ==
    [][/\ (lastOp' = "L" /\ fetched' # <<>>) =>
             UNCHANGED <<current_page, configs, loading, error, scroll_offset,
                         scroll_state>>
       /\ (lastOp' \in {"R", "Enter"} /\ fetched' # <<>>) =>
             UNCHANGED <<current_page, logs, logs_loading, scroll_offset>>
       /\ (lastOp' = "Right" /\ fetched' # <<>>) =>
             UNCHANGED <<logs, logs_loading, scroll_offset>>
       /\ lastOp' \in {"Up", "Down"} =>
             /\ UNCHANGED <<current_page, configs, loading, error, logs,
                            logs_loading, running>>
             /\ scroll_state'.content_length = scroll_state.content_length
             /\ fetched' = <<>>]_vars

\* A successful reload has just run on a session that was scrolled down and
\* held log scrollback.
C25_Witness ==
    /\ lastOp = "R"
    /\ Len(fetched) = 1
    /\ fetched[1].ok
    /\ scroll_offset > 0
    /\ logs # None

====
